---- MODULE Spec2Model ----
(***************************************************************************)
(* Silicon-Wafer-Counter: WaferCounter.process (src/core/wafer_counter.py) *)
(* and the batch driver's main (src/batch_process.py).                     *)
(*                                                                         *)
(* Columns and rows are numbered from 0 as in the source; a profile is a   *)
(* function on 0..w-1.  Images are taken from families that are uniform    *)
(* along the vertical axis (every row is the same), so a column of the     *)
(* grayscale image and of the enhanced+blurred image is one sample.        *)
(* CLAHE and the Gaussian blur are library transformations that are not    *)
(* computed here: the enhanced+blurred row ("blurred") is an input next to *)
(* the grayscale row ("gray").                                             *)
(***************************************************************************)
EXTENDS Integers, Sequences, FiniteSets, TLC

\* ------------------------------------------------------------------ bounds
MaxVar == 5      \* leading columns of a narrow image that vary
MaxW == 940      \* largest profile length handed to the period estimator
MaxH == 12       \* largest height of an image of the height family
MaxFiles == 3    \* largest number of image files in the input directory

\* sample values of a column of the enhanced+blurred image and of the
\* grayscale image (uint8)
PixelVals == {0, 1, 50}
GrayVals == {50, 200}
\* widths of the narrow images, their height, and the width of the images
\* of the height family
NarrowWidths == {4, 7, 23}
NarrowH == 6
TallW == 5

\* ------------------------------------------------------- program constants
BgFloor == 40            \* bg_thresh = max(40, mean * 0.4)
KernelW == 5             \* np.ones((1, 5))
CutoffBins == 10         \* pos_freqs > 10 / len(profile)
FallbackPeriod == 20     \* estimated_period = 20
MinDist == 3             \* max(3, ...)
MaxDist == 50            \* min(min_distance, 50)
ProminenceMin == 10      \* prominence = 10
\* marker of a not-a-number sample (mean of an empty band)
NaN == -1
\* values a build can give for the cast of NaN to uint8 (undefined)
NanCast == {0, 255}

\* --------------------------------------------------------------- helpers
Abs(x) == IF x < 0 THEN -x ELSE x
MinOf(S) == CHOOSE m \in S : \A y \in S : m <= y
MaxOf(S) == CHOOSE m \in S : \A y \in S : y <= m
Cols(n) == 0 .. (n - 1)
RECURSIVE SumTo(_, _)
SumTo(f, n) == IF n = 0 THEN 0 ELSE f[n - 1] + SumTo(f, n - 1)
RECURSIVE SortedSeq(_)
SortedSeq(S) == IF S = {} THEN << >> ELSE <<MinOf(S)>> \o SortedSeq(S \ {MinOf(S)})
SeqSet(s) == {s[i] : i \in 1 .. Len(s)}
\* the value of f, computed once
Eager(f) == CHOOSE g \in {f} : TRUE

\* ------------------------------------------------ 3. background masking
\* background_mask = (intensity_profile > max(40, mean * 0.4)); the column
\* means are the integer samples of the row, the mean of the row is the
\* rational SumTo/n and the comparison is done on integers
Threshold(ip, n) ==
    LET total == Eager(SumTo(ip, n))
    IN [c \in Cols(n) |-> IF ip[c] > BgFloor /\ 10 * n * ip[c] > 4 * total
                          THEN 1 ELSE 0]
\* window of the 1 x 5 kernel around column c, cut at the image border
\* (erosion and dilation ignore the samples outside the image)
Window(c, n) == {j \in Cols(n) : Abs(j - c) <= KernelW \div 2}
Erode(m, n) == [c \in Cols(n) |-> MinOf({m[j] : j \in Window(c, n)})]
Dilate(m, n) == [c \in Cols(n) |-> MaxOf({m[j] : j \in Window(c, n)})]
MorphOpen(m, n) == Dilate(Eager(Erode(m, n)), n)
BackgroundMask(ip, n) == MorphOpen(Eager(Threshold(ip, n)), n)

\* ---------------------------------------------- 4. gradient, 5. profile
\* a border that repeats the edge column (BORDER_REPLICATE) in its place
ReflectReplicate(i, n) == IF i < 0 THEN 0 ELSE IF i > n - 1 THEN n - 1 ELSE i
\* BORDER_REFLECT_101 coordinate of column i of an image of n columns
Reflect101(i, n) ==
    IF n = 1 THEN 0 ELSE IF i < 0 THEN -i ELSE IF i > n - 1 THEN 2 * (n - 1) - i ELSE i
\* |Sobel dx, ksize 3| of an image whose rows all equal b: the rows weigh
\* 1 + 2 + 1 and the columns -1, 0, +1
AbsSobelX(b, n) ==
    [c \in Cols(n) |-> 4 * Abs(b[Reflect101(c + 1, n)] - b[Reflect101(c - 1, n)])]
\* rows of abs_sobel_x[center_h - crop_height // 2 : center_h + crop_height // 2]
RoiRows(hh) ==
    LET center_h == hh \div 2
        crop_height == hh \div 3
    IN {r \in 0 .. (hh - 1) :
          center_h - crop_height \div 2 <= r /\ r < center_h + crop_height \div 2}
\* np.mean(roi, axis=0): the mean of equal rows is the row; of no row, NaN
BandMean(b, n, rows) ==
    IF rows = {} THEN [c \in Cols(n) |-> NaN] ELSE AbsSobelX(b, n)
\* profile * background_mask
MaskProfile(p, m, n) ==
    [c \in Cols(n) |-> IF p[c] = NaN THEN NaN ELSE p[c] * m[c]]
HasNaN(p, n) == \E c \in Cols(n) : p[c] = NaN
\* np.max(profile) - np.min(profile) > 0, false when a sample is NaN
HasRange(p, n) ==
    ~HasNaN(p, n) /\ MaxOf({p[c] : c \in Cols(n)}) - MinOf({p[c] : c \in Cols(n)}) > 0
\* min-max rescale to 0..255 when there is a range, then astype(uint8):
\* truncation; v is the value the build gives to the cast of NaN
Normalize(p, n, v) ==
    IF HasRange(p, n)
    THEN LET lo == Eager(MinOf({p[c] : c \in Cols(n)}))
             hi == Eager(MaxOf({p[c] : c \in Cols(n)}))
         IN [c \in Cols(n) |-> ((p[c] - lo) * 255) \div (hi - lo)]
    ELSE [c \in Cols(n) |-> IF p[c] = NaN THEN v ELSE p[c] % 256]

\* --------------------------------------------------- 6. period estimate
\* indices of the bins of np.fft.fftfreq(n) with freqs > 0
PosBins(n) == 1 .. ((n - 1) \div 2)
\* widths n for which the double 10 * (1.0 / n), the frequency fftfreq gives
\* to bin 10, is above the double 10 / n (IEEE-754 binary64, n <= 960)
Bin10Above ==
    {22, 44, 45, 61, 77, 88, 90, 91, 93, 99, 105, 122, 123, 154, 176, 179,
     180, 182, 186, 193, 198, 210, 211, 221, 243, 244, 245, 246, 308, 309,
     323, 352, 358, 360, 364, 372, 386, 387, 391, 393, 396, 413, 419, 420,
     421, 422, 442, 445, 463, 467, 486, 488, 490, 492, 535, 581, 595, 613,
     616, 618, 629, 637, 646, 665, 669, 677, 687, 704, 705, 707, 716, 720,
     723, 728, 739, 744, 751, 759, 761, 769, 772, 774, 782, 786, 787, 791,
     792, 805, 826, 838, 840, 842, 844, 865, 873, 875, 883, 884, 889, 890,
     891, 905, 907, 921, 926, 934, 935, 939, 945, 953, 959}
\* a cutoff that keeps the bin at 10 / n: >= in the place of >
ValidBinsInclusive(n) == {k \in PosBins(n) : k >= CutoffBins}
\* valid_mask = pos_freqs > 10 / len(profile), compared as doubles: bin k
\* has the frequency k * (1.0 / n); above bin 10 it exceeds 10 / n, below
\* bin 10 it does not, and bin 10 does where rounding lifts it
ValidBins(n) ==
    {k \in PosBins(n) : k > CutoffBins \/ (k = CutoffBins /\ n \in Bin10Above)}
\* fft_mag is all zero exactly when profile - np.mean(profile) is: when the
\* profile is constant
SpectrumZero(p, n) == \A c \in Cols(n) : p[c] = p[0]
\* np.argmax(fft_mag) over the valid bins.  When every magnitude is 0
\* argmax returns the first bin; the magnitudes of any other profile are
\* reals that are not computed here, and every valid bin is a possible result
PeakFreqBins(zero, n) ==
    IF zero THEN {MinOf(ValidBins(n))} ELSE ValidBins(n)
\* the estimate as a fraction <<numerator, denominator>>: 1 / (k / n), or 20;
\* the double 1 / (k * (1.0 / n)) is 20.0 exactly when n = 20 * k (n <= 960)
EstimatedPeriod(n, k) ==
    IF PosBins(n) # {} /\ ValidBins(n) # {} THEN <<n, k>> ELSE <<FallbackPeriod, 1>>
\* <<n, k>>, k a valid bin of a profile of n samples, for which the double
\* (1 / (k * (1.0 / n))) * 0.6 falls just below the integer that 6n / 10k is
\* (IEEE-754 binary64, n <= 960); everywhere else the double product
\* truncates as the exact product does
FloatShort ==
    {<<40, 12>>, <<80, 12>>, <<80, 24>>, <<130, 39>>, <<140, 12>>,
     <<150, 18>>, <<150, 45>>, <<160, 12>>, <<160, 24>>, <<160, 48>>,
     <<175, 15>>, <<210, 14>>, <<210, 18>>, <<210, 63>>, <<245, 21>>,
     <<260, 12>>, <<260, 39>>, <<260, 78>>, <<280, 12>>, <<280, 24>>,
     <<300, 18>>, <<300, 36>>, <<300, 45>>, <<300, 90>>, <<315, 27>>,
     <<320, 12>>, <<320, 24>>, <<320, 48>>, <<320, 96>>, <<325, 15>>,
     <<350, 15>>, <<350, 30>>, <<370, 111>>, <<380, 12>>, <<385, 33>>,
     <<390, 18>>, <<420, 14>>, <<420, 18>>, <<420, 28>>, <<420, 36>>,
     <<420, 63>>, <<420, 126>>, <<455, 21>>, <<455, 39>>, <<460, 12>>,
     <<475, 15>>, <<490, 21>>, <<490, 42>>, <<490, 147>>, <<500, 12>>,
     <<520, 12>>, <<520, 24>>, <<520, 39>>, <<520, 78>>, <<520, 156>>,
     <<525, 45>>, <<560, 12>>, <<560, 24>>, <<560, 48>>, <<570, 18>>,
     <<575, 15>>, <<575, 69>>, <<585, 27>>, <<595, 51>>, <<600, 18>>,
     <<600, 36>>, <<600, 45>>, <<600, 72>>, <<600, 90>>, <<600, 180>>,
     <<620, 12>>, <<625, 15>>, <<625, 75>>, <<630, 27>>, <<630, 54>>,
     <<640, 12>>, <<640, 24>>, <<640, 48>>, <<640, 96>>, <<640, 192>>,
     <<650, 15>>, <<650, 30>>, <<665, 21>>, <<665, 57>>, <<690, 18>>,
     <<700, 12>>, <<700, 15>>, <<700, 30>>, <<700, 60>>, <<715, 33>>,
     <<735, 63>>, <<740, 111>>, <<740, 222>>, <<750, 18>>, <<760, 12>>,
     <<760, 24>>, <<770, 33>>, <<770, 66>>, <<775, 15>>, <<780, 18>>,
     <<780, 36>>, <<805, 21>>, <<805, 69>>, <<830, 249>>, <<840, 14>>,
     <<840, 18>>, <<840, 28>>, <<840, 36>>, <<840, 56>>, <<840, 63>>,
     <<840, 72>>, <<840, 126>>, <<840, 252>>, <<845, 39>>, <<855, 27>>,
     <<875, 15>>, <<875, 21>>, <<875, 75>>, <<875, 105>>, <<890, 267>>,
     <<910, 21>>, <<910, 39>>, <<910, 42>>, <<910, 78>>, <<920, 12>>,
     <<920, 24>>, <<930, 18>>, <<935, 51>>, <<940, 12>>, <<945, 81>>,
     <<950, 15>>, <<950, 30>>}
\* int(estimated_period * 0.6): truncation of the double product
TruncProduct(est) ==
    (6 * est[1]) \div (10 * est[2]) - (IF est \in FloatShort THEN 1 ELSE 0)
\* the product rounded to the nearest integer in the place of int()
MinDistanceRounded(est) ==
    LET r == (12 * est[1] + 10 * est[2]) \div (20 * est[2])
        d == IF r > MinDist THEN r ELSE MinDist
    IN IF d < MaxDist THEN d ELSE MaxDist
\* min_distance = min(max(3, int(estimated_period * 0.6)), 50)
MinDistance(est) ==
    LET d == IF TruncProduct(est) > MinDist THEN TruncProduct(est) ELSE MinDist
    IN IF d < MaxDist THEN d ELSE MaxDist

\* ------------------------------------------- 6. find_peaks (scipy.signal)
\* last column of the plateau that starts at column l
PlateauEnd(x, n, l) ==
    CHOOSE r \in l .. (n - 1) :
        /\ \A j \in l .. r : x[j] = x[l]
        /\ (r = n - 1 \/ x[r + 1] # x[l])
\* _local_maxima_1d: a plateau with a rising left edge and a falling right
\* edge, never touching the first or last column, reported at its midpoint
LocalMaxima(x, n) ==
    {(l + PlateauEnd(x, n, l)) \div 2 :
        l \in {i \in 1 .. (n - 2) :
                 /\ x[i - 1] < x[i]
                 /\ PlateauEnd(x, n, i) < n - 1
                 /\ x[PlateauEnd(x, n, i) + 1] < x[i]}}
\* a selection that removes the candidates closer than distance - 1 only
RECURSIVE SelectByPeakDistanceShort(_, _, _, _)
SelectByPeakDistanceShort(todo, keep, x, distance) ==
    IF todo = {} THEN {keep}
    ELSE LET top == {j \in todo : \A i \in todo : x[i] <= x[j]}
         IN UNION {SelectByPeakDistanceShort(todo \ {j},
                       IF j \in keep
                       THEN keep \ {k \in keep : k # j /\ Abs(k - j) < distance - 1}
                       ELSE keep,
                       x, distance) : j \in top}
\* a selection that visits the candidates from the lowest priority up
RECURSIVE SelectLowestFirst(_, _, _, _)
SelectLowestFirst(todo, keep, x, distance) ==
    IF todo = {} THEN {keep}
    ELSE LET top == {j \in todo : \A i \in todo : x[j] <= x[i]}
         IN UNION {SelectLowestFirst(todo \ {j},
                       IF j \in keep
                       THEN keep \ {k \in keep : k # j /\ Abs(k - j) < distance}
                       ELSE keep,
                       x, distance) : j \in top}
\* _select_by_peak_distance: the candidates are visited from the highest
\* priority x[peak] down; a visited candidate that is still kept removes
\* every candidate closer than distance.  The order of equal priorities is
\* that of np.argsort(priority), an unstable sort: any order is possible.
\* The result is the set of the keep-sets that an order can give.
RECURSIVE SelectByPeakDistance(_, _, _, _)
SelectByPeakDistance(todo, keep, x, distance) ==
    IF todo = {} THEN {keep}
    ELSE LET top == {j \in todo : \A i \in todo : x[i] <= x[j]}
         IN UNION {SelectByPeakDistance(todo \ {j},
                       IF j \in keep
                       THEN keep \ {k \in keep : k # j /\ Abs(k - j) < distance}
                       ELSE keep,
                       x, distance) : j \in top}
\* _peak_prominences with wlen = None: the bases are the lowest samples
\* between the peak and the nearest higher sample on each side
Prominence(x, n, p) ==
    LET lstop == MaxOf({-1} \cup {i \in 0 .. p : x[i] > x[p]})
        rstop == MinOf({n} \cup {i \in p .. (n - 1) : x[i] > x[p]})
        left_min == MinOf({x[i] : i \in (lstop + 1) .. p})
        right_min == MinOf({x[i] : i \in p .. (rstop - 1)})
    IN x[p] - (IF left_min > right_min THEN left_min ELSE right_min)
\* _select_by_property(prominences, pmin = prominence, pmax = None)
SelectByProminence(S, x, n) == {p \in S : ProminenceMin <= Prominence(x, n, p)}


\* ======================================================================
\* State
\* ======================================================================
VARIABLES
    \* ---- WaferCounter.process
    pc,                 \* "loaded": image decoded; "normalized": after line 77;
                        \* "estimated": after line 106; "done": process returned
    h, w,               \* image height and width
    gray,               \* a row of the grayscale image
    blurred,            \* a row of the enhanced and blurred image
    background_mask,    \* after the opening
    roi,                \* rows of the central band
    masked,             \* profile * background_mask, before the rescale
    profile,            \* the uint8 profile that is returned
    spectrum_zero,      \* fft_mag is all zero
    estimated_period,   \* <<numerator, denominator>>
    min_distance,
    candidates,         \* local maxima of the profile
    spaced,             \* candidates find_peaks keeps for their spacing
    peaks,              \* the peaks find_peaks returns, ascending
    count,
    \* ---- batch_process.main
    bpc,                \* "start", "loop", "exited"
    input_exists,       \* input_path.exists()
    image_files,        \* what happens to each image file, in order
    idx,                \* position of the for loop, from 1
    attempted,          \* positions handed to counter.process, in order
    success_count, fail_count,
    written,            \* positions whose result_<name> was written
    exit_code           \* exit status once bpc = "exited"

pvars == <<pc, h, w, gray, blurred, background_mask, roi, masked, profile,
           spectrum_zero, estimated_period, min_distance, candidates, spaced,
           peaks, count>>
bvars == <<bpc, input_exists, image_files, idx, attempted, success_count,
           fail_count, written, exit_code>>
vars == <<pvars, bvars>>

\* ======================================================================
\* WaferCounter.process
\* ======================================================================
\* first var columns from f, the rest uniform
Row(f, n, var, pad) == [c \in Cols(n) |-> IF c < var THEN f[c] ELSE pad]
Varying(n) == IF n < MaxVar THEN n ELSE MaxVar

NoImage ==
    /\ h = 0 /\ gray = << >> /\ blurred = << >>
NoResult ==
    /\ background_mask = << >> /\ roi = {} /\ masked = << >> /\ profile = << >>
    /\ estimated_period = << >> /\ min_distance = 0
    /\ candidates = {} /\ spaced = {} /\ peaks = << >> /\ count = 0

\* narrow images: the leading columns vary, the rest is uniform foreground
InitNarrow ==
    \E n \in NarrowWidths :
      \E bv \in [Cols(Varying(n)) -> PixelVals], gv \in [Cols(Varying(n)) -> GrayVals] :
        /\ h = NarrowH /\ w = n
        /\ blurred = Row(bv, n, Varying(n), MinOf(PixelVals))
        /\ gray = Row(gv, n, Varying(n), MaxOf(GrayVals))
\* images of every height, with a uniform enhanced image
InitTall ==
    \E hh \in 1 .. MaxH :
      \E gv \in [Cols(TallW) -> GrayVals] :
        /\ h = hh /\ w = TallW
        /\ blurred = [c \in Cols(TallW) |-> MinOf(PixelVals)]
        /\ gray = gv

BatchIdle ==
    /\ bpc = "start" /\ input_exists = FALSE /\ image_files = << >>
    /\ idx = 0 /\ attempted = << >> /\ success_count = 0 /\ fail_count = 0
    /\ written = {} /\ exit_code = 0

Init ==
    /\ InitNarrow \/ InitTall
    /\ pc = "loaded" /\ spectrum_zero = FALSE
    /\ NoResult
    /\ BatchIdle

\* lines 81-106: from the length of the profile and its spectrum to the
\* estimate and the minimum spacing
PeriodEstimator(n, zero, est, d) ==
    \E k \in (IF PosBins(n) # {} /\ ValidBins(n) # {}
              THEN PeakFreqBins(zero, n) ELSE {0}) :
        /\ est = EstimatedPeriod(n, k)
        /\ d = MinDistance(est)

\* find_peaks(profile, distance=min_distance, prominence=prominence)
FindPeaks(x, n, distance, cands, kept, found) ==
    /\ cands = LocalMaxima(x, n)
    /\ kept \in SelectByPeakDistance(cands, cands, x, distance)
    /\ found = SortedSeq(SelectByProminence(kept, x, n))

\* process(image_path), from the decoded image to the return
Process ==
    /\ pc = "loaded"
    /\ \E m \in {BackgroundMask(gray, w)}, rows \in {RoiRows(h)} :
       \E raw \in {MaskProfile(BandMean(blurred, w, rows), m, w)} :
       \E v \in NanCast :
       \E prof \in {Normalize(raw, w, v)} :
           /\ background_mask' = m
           /\ roi' = rows
           /\ masked' = raw
           /\ profile' = prof
           /\ spectrum_zero' = SpectrumZero(prof, w)
           /\ PeriodEstimator(w, spectrum_zero', estimated_period', min_distance')
           /\ FindPeaks(prof, w, min_distance', candidates', spaced', peaks')
           /\ count' = Len(peaks')
    /\ pc' = "done"
    /\ UNCHANGED <<h, w, gray, blurred>>
    /\ UNCHANGED bvars

Next == Process

Spec == Init /\ [][Next]_vars

\* ======================================================================
\* The period estimator on its own: lines 81-106 of process, entered with a
\* normalized profile of w samples of which only the spectrum matters
\* ======================================================================
InitPeriod ==
    /\ pc = "normalized"
    /\ w \in 1 .. MaxW
    /\ spectrum_zero \in BOOLEAN
    /\ NoImage /\ NoResult
    /\ BatchIdle

EstimatePeriod ==
    /\ pc = "normalized"
    /\ PeriodEstimator(w, spectrum_zero, estimated_period', min_distance')
    /\ pc' = "estimated"
    /\ UNCHANGED <<h, w, gray, blurred, background_mask, roi, masked, profile,
                   spectrum_zero, candidates, spaced, peaks, count>>
    /\ UNCHANGED bvars

PeriodNext == EstimatePeriod

PeriodSpec == InitPeriod /\ [][PeriodNext]_vars

\* ======================================================================
\* batch_process.main
\* ======================================================================
\* what one image file does to the body of the loop:
\*   "ok"            process returns, imencode succeeds, tofile writes
\*   "load_fails"    process raises ValueError
\*   "encode_raises" cv2.imencode raises
\*   "encode_false"  cv2.imencode returns success = False
\*   "write_raises"  encoded_img.tofile raises
FileKinds == {"ok", "load_fails", "encode_raises", "encode_false", "write_raises"}

ProcessIdle ==
    /\ pc = "idle" /\ w = 0 /\ spectrum_zero = FALSE
    /\ NoImage /\ NoResult

InitBatch ==
    /\ bpc = "start"
    /\ input_exists \in BOOLEAN
    /\ image_files \in UNION {[1 .. n -> FileKinds] : n \in 0 .. MaxFiles}
    /\ (~input_exists => image_files = << >>)
    /\ idx = 0 /\ attempted = << >> /\ success_count = 0 /\ fail_count = 0
    /\ written = {} /\ exit_code = 0
    /\ ProcessIdle

\* lines 60-115, one pass of the try block for a file of this kind: does
\* the pass reach "success_count += 1" (line 108), does it end in the
\* except clause (line 115), is the result file written (line 104)
ReachesSuccess(kind) == kind \in {"ok", "encode_false"}
\* an except clause that catches the ValueError of process only
ReachesExceptLoadOnly(kind) == kind = "load_fails"
ReachesExcept(kind) == kind \in {"load_fails", "encode_raises", "write_raises"}
WritesResult(kind) == kind = "ok"
\* a driver that reports failed files in its exit status
StatusFailsNonzero(fails) == IF fails > 0 THEN 1 ELSE 0
\* status of the interpreter when main returns after the loop
StatusAfterLoop(fails) == 0

\* lines 30-57: the input directory is checked and listed
ListInput ==
    /\ bpc = "start"
    /\ IF ~input_exists
       THEN \* sys.exit(1)
            /\ bpc' = "exited" /\ exit_code' = 1
            /\ UNCHANGED <<idx, success_count, fail_count>>
       ELSE IF image_files = << >>
       THEN \* return
            /\ bpc' = "exited" /\ exit_code' = 0
            /\ UNCHANGED <<idx, success_count, fail_count>>
       ELSE /\ bpc' = "loop" /\ idx' = 1
            /\ success_count' = 0 /\ fail_count' = 0
            /\ UNCHANGED exit_code
    /\ UNCHANGED <<input_exists, image_files, attempted, written>>
    /\ UNCHANGED pvars

\* lines 59-115: the body of the for loop for the next file
HandleFile ==
    /\ bpc = "loop"
    /\ idx <= Len(image_files)
    /\ attempted' = Append(attempted, idx)
    /\ written' = IF WritesResult(image_files[idx]) THEN written \cup {idx} ELSE written
    /\ success_count' = IF ReachesSuccess(image_files[idx])
                        THEN success_count + 1 ELSE success_count
    /\ fail_count' = IF ReachesExcept(image_files[idx])
                     THEN fail_count + 1 ELSE fail_count
    /\ idx' = idx + 1
    /\ UNCHANGED <<bpc, input_exists, image_files, exit_code>>
    /\ UNCHANGED pvars

\* lines 117-126: the summary, then main returns
Summarize ==
    /\ bpc = "loop"
    /\ idx > Len(image_files)
    /\ bpc' = "exited"
    /\ exit_code' = StatusAfterLoop(fail_count)
    /\ UNCHANGED <<input_exists, image_files, idx, attempted, success_count,
                   fail_count, written>>
    /\ UNCHANGED pvars

BatchNext == ListInput \/ HandleFile \/ Summarize

BatchSpec == InitBatch /\ [][BatchNext]_vars
\* the driver is one sequential program: it always takes its next step
BatchFairSpec == BatchSpec /\ WF_vars(BatchNext)

\* ======================================================================
\* Properties
\* ======================================================================
Done == pc = "done"
Estimated == pc = "estimated"
Exited == bpc = "exited"
EstIsFallback == estimated_period[1] = FallbackPeriod * estimated_period[2]

\* C1: the peaks process returns are strictly increasing, and two adjacent
\* peaks are at least min_distance columns apart, min_distance being the
\* value computed from the period estimate of the same call
C1_DistanceInvariant ==
    Done => \A i \in 1 .. (Len(peaks) - 1) :
                /\ peaks[i] < peaks[i + 1]
                /\ peaks[i + 1] - peaks[i] >= min_distance
\* two peaks are returned and the spacing rule has dropped a candidate
C1_Witness ==
    /\ Done /\ Len(peaks) >= 2
    /\ \E c \in candidates : c \notin spaced

\* C2: a column whose background mask is 0 has the sample 0 in the profile
\* that process returns, on both branches of the normalizer
C2_MaskInvariant ==
    Done => \A c \in Cols(w) : background_mask[c] = 0 => profile[c] = 0

\* C3: when the masked raw profile has max == min, the rescale is skipped
\* (the profile is the masked profile cast to uint8), the profile is all
\* zero, no peak is found and the count is 0
ZeroRange ==
    /\ ~HasNaN(masked, w)
    /\ \A c \in Cols(w) : masked[c] = masked[0]
C3_FlatProfile ==
    (Done /\ ZeroRange) =>
        /\ \A c \in Cols(w) : profile[c] = masked[c] % 256
        /\ \A c \in Cols(w) : profile[c] = 0
        /\ peaks = << >>
        /\ count = 0
\* a flat masked profile of an image whose enhanced row is not uniform:
\* the mask has removed every gradient
C3_Witness ==
    /\ Done /\ ZeroRange
    /\ \E c \in Cols(w) : blurred[c] # blurred[0]

\* C4 as claimed: only the positive bins whose frequency k / w is below
\* 10 / w are discarded, the estimate is 20 exactly when no positive bin
\* survives, and otherwise it is w / k for a surviving bin k
C4_Original ==
    Estimated =>
        LET surviving == {k \in PosBins(w) : ~(k < CutoffBins)}
        IN /\ EstIsFallback <=> surviving = {}
           /\ surviving # {} => \E k \in surviving : estimated_period = <<w, k>>
\* C4 as amended: a positive bin is discarded when its frequency is not
\* above 10 / w as doubles: every bin below 10, and bin 10 itself unless
\* rounding lifts 10 * (1.0 / w) above 10 / w; the estimate is the fallback
\* 20 whenever no positive bin survives, and w / k for a surviving bin k
\* otherwise (the first one when the spectrum is all zero)
C4_Cutoff ==
    Estimated =>
        LET kept == {k \in 1 .. w :
                       /\ 2 * k < w
                       /\ k > 10 \/ (k = 10 /\ w \in Bin10Above)}
        IN IF kept = {}
           THEN estimated_period = <<20, 1>>
           ELSE /\ \E k \in kept : estimated_period = <<w, k>>
                /\ spectrum_zero => \A k \in kept : estimated_period[2] <= k
\* bin 10 is a positive bin, it is discarded and the estimate is the fallback
C4_Witness ==
    /\ Estimated
    /\ CutoffBins \in PosBins(w)
    /\ estimated_period = <<FallbackPeriod, 1>>

\* C5: every file is attempted exactly once, in order, whatever fails, and
\* at the end of the loop success_count + fail_count is the number of files
C5_EveryFileOnce ==
    /\ bpc = "loop" =>
         /\ attempted = [i \in 1 .. (idx - 1) |-> i]
         /\ success_count + fail_count = idx - 1
    /\ (Exited /\ input_exists /\ image_files # << >>) =>
         /\ attempted = [i \in 1 .. Len(image_files) |-> i]
         /\ success_count + fail_count = Len(image_files)
\* the loop has ended after a file that failed and a later file that was
\* written
C5_Witness ==
    /\ Exited
    /\ \E i, j \in 1 .. Len(image_files) :
         /\ i < j
         /\ image_files[i] # "ok" /\ image_files[i] # "encode_false"
         /\ j \in written

Clamp(x) == IF x < MinDist THEN MinDist ELSE IF x > MaxDist THEN MaxDist ELSE x
C7_Original ==
    Estimated =>
        LET n == estimated_period[1]
            k == estimated_period[2]
            up == (12 * n + 10 * k) \div (20 * k)
            tie == (12 * n + 10 * k) % (20 * k) = 0
        IN \/ min_distance = Clamp(up)
           \/ tie /\ min_distance = Clamp(up - 1)
\* C7 as amended: min_distance is the product estimate * 0.6 truncated to an
\* integer, then clamped to [3, 50]: t <= 0.6 * estimate < t + 1 for the
\* integer t that is clamped, t being one less where the double product
\* falls just below an integer
C7_Truncated ==
    Estimated =>
        LET n == estimated_period[1]
            k == estimated_period[2]
            short == IF estimated_period \in FloatShort THEN 1 ELSE 0
        IN /\ min_distance \in 3 .. 50
           /\ min_distance > 3 => (min_distance + short) * 10 * k <= 6 * n
           /\ min_distance < 50 => 6 * n < (min_distance + short + 1) * 10 * k
\* the product lies in the upper half between two integers inside the
\* clamp: truncation and rounding differ
C7_Witness ==
    /\ Estimated
    /\ min_distance > 3 /\ min_distance < 50
    /\ 2 * ((6 * estimated_period[1]) % (10 * estimated_period[2]))
         > 10 * estimated_period[2]

\* a local maximum: a plateau around p with lower samples at both ends
IsLocalMax(x, n, p) ==
    \E l \in 1 .. p, r \in p .. (n - 2) :
        /\ \A j \in l .. r : x[j] = x[p]
        /\ x[l - 1] < x[p] /\ x[r + 1] < x[p]
\* on both sides the profile falls to x[p] - 10 or lower before it rises
\* above x[p]
IsProminent(x, n, p) ==
    /\ \E i \in 0 .. p : x[i] <= x[p] - 10 /\ \A j \in i .. p : x[j] <= x[p]
    /\ \E i \in p .. (n - 1) : x[i] <= x[p] - 10 /\ \A j \in p .. i : x[j] <= x[p]
Retained == SeqSet(peaks)
C8_RetainedArePeaks ==
    /\ Retained \subseteq spaced /\ spaced \subseteq candidates
    /\ \A p \in candidates : IsLocalMax(profile, w, p)
    /\ \A p \in Retained : IsProminent(profile, w, p)
\* C8 as claimed: a retained peak is a local maximum of prominence >= 10;
\* of two candidates closer than min_distance the lower one is not kept,
\* and of two equal ones the one at the higher column is not kept
C8_Original ==
    Done =>
        /\ C8_RetainedArePeaks
        /\ \A a, b \in candidates :
             (a # b /\ Abs(a - b) < min_distance) =>
                /\ profile[a] > profile[b] => b \notin spaced
                /\ (profile[a] = profile[b] /\ a < b) => b \notin spaced
\* C8 as amended: a retained peak is a local maximum of prominence >= 10;
\* of two candidates closer than min_distance at most one is kept; a
\* candidate is dropped for its spacing only when a kept candidate at least
\* as high lies closer than min_distance
C8_Greedy ==
    Done =>
        /\ C8_RetainedArePeaks
        /\ \A a, b \in spaced : a # b => Abs(a - b) >= min_distance
        /\ \A b \in candidates \ spaced :
             \E a \in spaced : Abs(a - b) < min_distance /\ profile[a] >= profile[b]
\* two equal candidates closer than min_distance, the one at the higher
\* column kept
C8_Witness ==
    /\ Done
    /\ \E a, b \in candidates :
         /\ a < b /\ b - a < min_distance
         /\ profile[a] = profile[b]
         /\ b \in Retained /\ a \notin spaced

\* C9: for every height the band is a contiguous range of exactly h \div 3
\* rows around row h \div 2, and it is not empty when h >= 3
C9_MiddleThird ==
    Done =>
        /\ Cardinality(roi) = h \div 3
        /\ h >= 3 => roi # {}
        /\ roi # {} => /\ (h \div 2) \in roi
                       /\ \A r \in MinOf(roi) .. MaxOf(roi) : r \in roi

\* C10: success_count is the number of result files written, and a file
\* whose result was not written is counted in fail_count
C10_SuccessMeansWritten ==
    /\ success_count = Cardinality(written)
    /\ Exited => fail_count = Cardinality({i \in SeqSet(attempted) : i \notin written})

====
